---- MODULE Spec2Model ----
(***************************************************************************)
(* Model of the nostrrelay extension's data model (src/models.py):         *)
(* ClientConfig.is_author_allowed, NostrEvent.check_signature and the      *)
(* NostrFilter operations matches, tag_in_list, is_empty, enforce_limit    *)
(* and to_sql_components.                                                  *)
(*                                                                         *)
(* Hex strings (event ids, public keys, tag values, relay ids) are         *)
(* abstracted to integers.  Optional[int] is a sequence of length <= 1:    *)
(* <<>> is None and <<v>> is the integer v.  Python lists are sequences.   *)
(***************************************************************************)
EXTENDS Integers, Sequences, FiniteSets, TLC

\* filter: the NostrFilter at hand; event: the NostrEvent at hand;
\* config: the relay's ClientConfig; op: the operation that ran last ("new"
\* before any); arg: its argument; ret: its outcome; change: the one field
\* of the filter or event that was changed since construction ("none",
\* "many" after a second change)
VARIABLES filter, event, config, op, arg, ret, change

vars == <<filter, event, config, op, arg, ret, change>>

----------------------------------------------------------------------------
(* Bounds of the model *)

\* hex values (ids, pubkeys, tag values) are drawn from 1..MaxVal
MaxVal == 2
\* longest ids/authors/kinds/#e/#p list of a filter
MaxList == 2
\* most tag entries of an event
MaxTags == 2
\* timestamps (created_at, since, until) are drawn from MinTime..MaxTime
MaxTime == 2
\* requested limits are drawn from MinLimit..MaxLimit, configured ones from 1..MaxLimit
MaxLimit == 3
\* content strings and key material of signed events are drawn from 0..MaxKey
MaxKey == 3

MinTime == 0 - 1
MinLimit == 0 - 2

----------------------------------------------------------------------------
(* Python values *)

None == <<>>

Some(v) == <<v>>

\* Optional[int] over a set of integers
Optional(S) == {None} \cup {Some(v) : v \in S}

\* bool(x) of an Optional[int]: None and 0 are falsy
Truthy(o) == o # None /\ o[1] # 0

\* x in list
In(x, list) == \E i \in 1..Len(list) : list[i] = x

\* all lists over S of length <= n
Lists(S, n) == UNION {[1..k -> S] : k \in 0..n}

\* a call's outcome: a returned value, or the exception that ended it
Return(v) == [raised |-> "", value |-> v]

Raise(exc) == [raised |-> exc, value |-> FALSE]

NoRet == [raised |-> "", value |-> FALSE]

----------------------------------------------------------------------------
(* NostrFilter *)

EmptyFilter ==
    [subscription_id |-> None, ids |-> <<>>, authors |-> <<>>, kinds |-> <<>>,
     e |-> <<>>, p |-> <<>>, since |-> None, until |-> None, limit |-> None]

\* NostrEvent as constructed from the wire; id and sig are only read by check_signature
DefaultEvent ==
    [id |-> 1, pubkey |-> 1, created_at |-> 1, kind |-> 1, tags |-> <<>>,
     content |-> 0, sig |-> 0]

\* dict(self).get(tag_name, []): the filter's field of that name
FilterTags(f, tag_name) ==
    IF tag_name = "e" THEN f.e ELSE IF tag_name = "p" THEN f.p ELSE <<>>

\* t[0] or t[1] is read past the end of a tag entry
TagIndexError(event_tags, tag_name) ==
    \E i \in 1..Len(event_tags) :
        \/ Len(event_tags[i]) = 0
        \/ event_tags[i][1] = tag_name /\ Len(event_tags[i]) < 2

tag_in_list(f, event_tags, tag_name) ==
    LET filter_tags == FilterTags(f, tag_name)
    IN  IF Len(filter_tags) = 0 THEN Return(TRUE)
        ELSE IF TagIndexError(event_tags, tag_name) THEN Raise("IndexError")
        ELSE LET common_tags ==
                    {i \in 1..Len(event_tags) :
                        /\ event_tags[i][1] = tag_name
                        /\ In(event_tags[i][2], filter_tags)}
             IN  Return(common_tags # {})

\* the since check of matches: TRUE when the event is rejected
SinceRejects(f, ev) == Truthy(f.since) /\ ev.created_at < f.since[1]

\* the until check of matches: TRUE when the event is rejected
UntilRejects(f, ev) ==
    Truthy(f.until) /\ f.until[1] > 0 /\ ev.created_at > f.until[1]

matches(f, ev) ==
    IF Len(f.ids) # 0 /\ ~In(ev.id, f.ids) THEN Return(FALSE)
    ELSE IF Len(f.authors) # 0 /\ ~In(ev.pubkey, f.authors) THEN Return(FALSE)
    ELSE IF Len(f.kinds) # 0 /\ ~In(ev.kind, f.kinds) THEN Return(FALSE)
    ELSE IF SinceRejects(f, ev) THEN Return(FALSE)
    ELSE IF UntilRejects(f, ev) THEN Return(FALSE)
    ELSE LET found_e_tag == tag_in_list(f, ev.tags, "e")
             found_p_tag == tag_in_list(f, ev.tags, "p")
         IN  IF found_e_tag.raised # "" THEN found_e_tag
             ELSE IF found_p_tag.raised # "" THEN found_p_tag
             ELSE IF ~found_e_tag.value \/ ~found_p_tag.value THEN Return(FALSE)
             ELSE Return(TRUE)

\* a variant that also counts limit as a constraint
is_empty_checks_limit(f) ==
    /\ Len(f.ids) = 0
    /\ Len(f.authors) = 0
    /\ Len(f.kinds) = 0
    /\ Len(f.e) = 0
    /\ Len(f.p) = 0
    /\ ~Truthy(f.since)
    /\ ~Truthy(f.until)
    /\ ~Truthy(f.limit)

is_empty(f) ==
    /\ Len(f.ids) = 0
    /\ Len(f.authors) = 0
    /\ Len(f.kinds) = 0
    /\ Len(f.e) = 0
    /\ Len(f.p) = 0
    /\ ~Truthy(f.since)
    /\ ~Truthy(f.until)

\* the filter after enforce_limit(limit)
enforce_limit(f, limit) ==
    IF ~Truthy(f.limit) \/ f.limit[1] > limit
    THEN [f EXCEPT !.limit = Some(limit)]
    ELSE f

----------------------------------------------------------------------------
(* NostrFilter.to_sql_components.  SQL text is a sequence of tokens; "?" is *)
(* the placeholder of a bound parameter.                                    *)

\* ",".join(["?"] * n), for n >= 1
Placeholders(n) == [i \in 1..(2 * n - 1) |-> IF i % 2 = 1 THEN "?" ELSE ","]

\* str(v), as an f-string would render a value into the SQL text
Str(v) == IF v < 0 THEN <<"-", ToString(0 - v)>> ELSE <<ToString(v)>>

SqlJoins(f) ==
    (IF Len(f.e) # 0
     THEN << <<"INNER JOIN nostrrelay.event_tags e_tags ON nostrrelay.events.id = e_tags.event_id">> >>
     ELSE <<>>)
    \o
    (IF Len(f.p) # 0
     THEN << <<"INNER JOIN nostrrelay.event_tags p_tags ON nostrrelay.events.id = p_tags.event_id">> >>
     ELSE <<>>)

SqlWhere(f) ==
    << <<"deleted=false">>, <<"nostrrelay.events.relay_id = ", "?">> >>
    \o (IF Len(f.e) # 0
        THEN << <<" (e_tags.value in (">> \o Placeholders(Len(f.e))
                \o <<") AND e_tags.name = 'e')">> >>
        ELSE <<>>)
    \o (IF Len(f.p) # 0
        THEN << <<" p_tags.value in (">> \o Placeholders(Len(f.p))
                \o <<") AND p_tags.name = 'p'">> >>
        ELSE <<>>)
    \o (IF Len(f.ids) # 0
        THEN << <<"id IN (">> \o Placeholders(Len(f.ids)) \o <<")">> >>
        ELSE <<>>)
    \o (IF Len(f.authors) # 0
        THEN << <<"pubkey IN (">> \o Placeholders(Len(f.authors)) \o <<")">> >>
        ELSE <<>>)
    \o (IF Len(f.kinds) # 0
        THEN << <<"kind IN (">> \o Placeholders(Len(f.kinds)) \o <<")">> >>
        ELSE <<>>)
    \o (IF Truthy(f.since) THEN << <<"created_at >= ", "?">> >> ELSE <<>>)
    \o (IF Truthy(f.until) THEN << <<"created_at < ", "?">> >> ELSE <<>>)

\* a variant that binds since whenever it is not None, while the predicate is
\* only emitted when it is truthy
SqlValuesSinceNotNone(f, relay_id) ==
    <<relay_id>> \o f.e \o f.p \o f.ids \o f.authors \o f.kinds
    \o (IF f.since # None THEN f.since ELSE <<>>)
    \o (IF Truthy(f.until) THEN f.until ELSE <<>>)

SqlValues(f, relay_id) ==
    <<relay_id>>
    \o (IF Len(f.e) # 0 THEN f.e ELSE <<>>)
    \o (IF Len(f.p) # 0 THEN f.p ELSE <<>>)
    \o (IF Len(f.ids) # 0 THEN f.ids ELSE <<>>)
    \o (IF Len(f.authors) # 0 THEN f.authors ELSE <<>>)
    \o (IF Len(f.kinds) # 0 THEN f.kinds ELSE <<>>)
    \o (IF Truthy(f.since) THEN <<f.since[1]>> ELSE <<>>)
    \o (IF Truthy(f.until) THEN <<f.until[1]>> ELSE <<>>)

to_sql_components(f, relay_id) ==
    [inner_joins |-> SqlJoins(f), where |-> SqlWhere(f),
     values |-> SqlValues(f, relay_id)]

----------------------------------------------------------------------------
(* The query the components describe, evaluated on one stored event *)

NumPlaceholders(text) == Cardinality({i \in 1..Len(text) : text[i] = "?"})

\* the row of nostrrelay.events that holds the event
EventRow(ev, relay_id, deleted) ==
    [relay_id |-> relay_id, deleted |-> deleted, id |-> ev.id,
     pubkey |-> ev.pubkey, created_at |-> ev.created_at, kind |-> ev.kind]

\* the rows of nostrrelay.event_tags that index the event's tags
TagRows(ev) ==
    {[name |-> ev.tags[i][1], value |-> ev.tags[i][2]] :
        i \in {j \in 1..Len(ev.tags) : Len(ev.tags[j]) >= 2}}

NoTagRow == [name |-> "", value |-> 0]

\* one where-predicate on the joined row (row, e_tags row, p_tags row), with
\* the parameters bound to its placeholders
EvalPredicate(text, bound, row, er, pr) ==
    CASE text[1] = "deleted=false" -> row.deleted = FALSE
      [] text[1] = "nostrrelay.events.relay_id = " -> row.relay_id = bound[1]
      [] text[1] = " (e_tags.value in (" -> In(er.value, bound) /\ er.name = "e"
      [] text[1] = " p_tags.value in (" -> In(pr.value, bound) /\ pr.name = "p"
      [] text[1] = "id IN (" -> In(row.id, bound)
      [] text[1] = "pubkey IN (" -> In(row.pubkey, bound)
      [] text[1] = "kind IN (" -> In(row.kind, bound)
      [] text[1] = "created_at >= " -> row.created_at >= bound[1]
      [] text[1] = "created_at < " -> row.created_at < bound[1]
      [] OTHER -> FALSE

RECURSIVE EvalWhere(_, _, _, _, _, _, _)
\* the conjunction of where[i..], the parameters from values[offset+1..] on
EvalWhere(where, values, i, offset, row, er, pr) ==
    IF i > Len(where) THEN TRUE
    ELSE LET n == NumPlaceholders(where[i])
         IN  /\ EvalPredicate(where[i], SubSeq(values, offset + 1, offset + n),
                              row, er, pr)
             /\ EvalWhere(where, values, i + 1, offset + n, row, er, pr)

Joined(q, alias) ==
    \E i \in 1..Len(q.inner_joins) :
        q.inner_joins[i] =
            <<IF alias = "e"
              THEN "INNER JOIN nostrrelay.event_tags e_tags ON nostrrelay.events.id = e_tags.event_id"
              ELSE "INNER JOIN nostrrelay.event_tags p_tags ON nostrrelay.events.id = p_tags.event_id">>

\* the query returns the stored event
Selected(q, row, tag_rows) ==
    \E er \in (IF Joined(q, "e") THEN tag_rows ELSE {NoTagRow}) :
        \E pr \in (IF Joined(q, "p") THEN tag_rows ELSE {NoTagRow}) :
            EvalWhere(q.where, q.values, 1, 0, row, er, pr)

----------------------------------------------------------------------------
(* NostrEvent.check_signature.  SHA-256 and BIP-340 are abstract functions *)
(* of the event's fields: the digest is collision-free on the model's      *)
(* events and a signature is valid for exactly one (public key, digest).   *)

\* a string that is not hexadecimal
NotHex == 0 - 1

\* radix of the digest: larger than every field of a serialized event
HashBase == MaxKey + MaxTime + MaxVal + 4

\* json.dumps of the tags, as a number below HashBase
TagsCode(tags) == IF Len(tags) = 0 \/ Len(tags[1]) < 2 THEN 0 ELSE tags[1][2]

serialize(ev) == <<0, ev.pubkey, ev.created_at, ev.kind, ev.tags, ev.content>>

sha256(data) ==
    ((((data[2] + 1) * HashBase + (data[3] - MinTime)) * HashBase + data[4])
        * HashBase + TagsCode(data[5])) * HashBase + data[6]

\* a variant that leaves the public key out of the hashed serialization
event_id_without_pubkey(ev) == sha256([serialize(ev) EXCEPT ![2] = 0])

event_id(ev) == sha256(serialize(ev))

\* PublicKey(bytes.fromhex("02" + pubkey), True) succeeds: the string is hex
\* and the x coordinate of a curve point
IsPublicKey(pubkey) == pubkey # NotHex /\ pubkey % 2 = 0

\* the signature the holder of pubkey's secret key makes over msg
Sign(pubkey, msg) == (pubkey + 1) * (HashBase * HashBase * HashBase * HashBase * HashBase) + msg

schnorr_verify(pubkey, msg, sig) == sig = Sign(pubkey, msg)

check_signature(ev) ==
    IF ev.id # event_id(ev) THEN Raise("Invalid event id")
    ELSE IF ~IsPublicKey(ev.pubkey) THEN Raise("Invalid public key")
    ELSE IF ev.sig = NotHex THEN Raise("non-hexadecimal number found in fromhex()")
    ELSE IF ~schnorr_verify(ev.pubkey, event_id(ev), ev.sig)
         THEN Raise("Invalid signature")
    ELSE Return(TRUE)

----------------------------------------------------------------------------
(* ClientConfig *)

\* a variant that consults the allow-list before the block-list
is_author_allowed_allow_first(cfg, p) ==
    IF Len(cfg.allowed_public_keys) = 0 THEN ~In(p, cfg.blocked_public_keys)
    ELSE IF In(p, cfg.allowed_public_keys) THEN TRUE
    ELSE FALSE

is_author_allowed(cfg, p) ==
    IF In(p, cfg.blocked_public_keys) THEN FALSE
    ELSE IF Len(cfg.allowed_public_keys) = 0 THEN TRUE
    ELSE In(p, cfg.allowed_public_keys)

DefaultConfig ==
    [limit_per_filter |-> 1000, allowed_public_keys |-> <<>>,
     blocked_public_keys |-> <<>>]

----------------------------------------------------------------------------
(* Inputs *)

Values == 1..MaxVal

Times == MinTime..MaxTime

ListFields == {"ids", "authors", "kinds", "e", "p"}

TagNames == {"e", "p", "t"}

\* tag entries of any length below 3, the first element the tag name
TagEntries ==
    {<<>>} \cup {<<n>> : n \in TagNames} \cup {<<n, v>> : n \in TagNames, v \in Values}

TagLists == Lists(TagEntries, MaxTags)

\* at most one entry, of the indexed names and with a value
IndexedTagLists == Lists({<<n, v>> : n \in {"e", "p"}, v \in Values}, 1)

\* the filter whose list fields named in m all hold list, the others empty
Masked(m, list, since, until) ==
    [subscription_id |-> None,
     ids |-> IF "ids" \in m THEN list ELSE <<>>,
     authors |-> IF "authors" \in m THEN list ELSE <<>>,
     kinds |-> IF "kinds" \in m THEN list ELSE <<>>,
     e |-> IF "e" \in m THEN list ELSE <<>>,
     p |-> IF "p" \in m THEN list ELSE <<>>,
     since |-> since, until |-> until, limit |-> None]

Fresh ==
    /\ op = "new"
    /\ arg = 0
    /\ ret = NoRet
    /\ change = "none"

----------------------------------------------------------------------------
(* Operations *)

Matches ==
    /\ op = "new"
    /\ op' = "matches"
    /\ ret' = matches(filter, event)
    /\ UNCHANGED <<filter, event, config, arg, change>>

IsEmpty ==
    /\ op = "new"
    /\ op' = "is_empty"
    /\ ret' = Return(is_empty(filter))
    /\ UNCHANGED <<filter, event, config, arg, change>>

\* the relay clamps a subscription's filter to its configured limit_per_filter;
\* arg keeps the limit that was requested
EnforceLimit ==
    /\ op = "new"
    /\ op' = "enforce_limit"
    /\ filter' = enforce_limit(filter, config.limit_per_filter)
    /\ arg' = filter.limit
    /\ UNCHANGED <<event, config, ret, change>>

ToSqlComponents(relay_id) ==
    /\ op = "new"
    /\ op' = "to_sql_components"
    /\ arg' = relay_id
    /\ ret' = to_sql_components(filter, relay_id)
    /\ UNCHANGED <<filter, event, config, change>>

\* the compiled query run on the event as stored under relay 1
HistoricalQuery(relay_id, deleted) ==
    /\ op = "new"
    /\ op' = "query"
    /\ arg' = [relay_id |-> relay_id, deleted |-> deleted]
    /\ ret' = Return(Selected(to_sql_components(filter, relay_id),
                              EventRow(event, 1, deleted), TagRows(event)))
    /\ UNCHANGED <<filter, event, config, change>>

\* a subscription is requested again with one more constraint
Narrow(field, v) ==
    /\ op = "new"
    /\ change = "none"
    /\ IF field \in ListFields
       THEN /\ filter[field] = <<>>
            /\ v \in Values
            /\ filter' = [filter EXCEPT ![field] = <<v>>]
       ELSE /\ filter[field] = None
            /\ filter' = [filter EXCEPT ![field] = Some(v)]
    /\ change' = field
    /\ UNCHANGED <<event, config, op, arg, ret>>

IsAuthorAllowed(p) ==
    /\ op = "new"
    /\ op' = "is_author_allowed"
    /\ arg' = p
    /\ ret' = Return(is_author_allowed(config, p))
    /\ UNCHANGED <<filter, event, config, change>>

CheckSignature ==
    /\ op = "new"
    /\ op' = "check_signature"
    /\ ret' = check_signature(event)
    /\ UNCHANGED <<filter, event, config, arg, change>>

\* one field of a received event differs from what its publisher signed
Alter(field, v) ==
    /\ op = "new"
    /\ change \in {"none", "id", "pubkey", "sig"}
    /\ event[field] # v
    /\ event' = [event EXCEPT ![field] = v]
    /\ change' = IF change = "none" THEN field ELSE "many"
    /\ UNCHANGED <<filter, config, op, arg, ret>>

\* ids an event may carry instead of its own
OtherIds(ev) ==
    {NotHex} \cup {event_id([ev EXCEPT !.content = c]) : c \in 0..MaxKey}

\* signatures an event may carry instead of its own
OtherSigs(ev) ==
    {NotHex, 0} \cup {Sign(k, event_id(ev)) : k \in 0..MaxKey}
    \cup {Sign(ev.pubkey, event_id([ev EXCEPT !.content = c])) : c \in 0..MaxKey}

AlterId == \E v \in OtherIds(event) : Alter("id", v)

AlterPubkey == \E v \in {NotHex} \cup 0..MaxKey : Alter("pubkey", v)

AlterSig == \E v \in OtherSigs(event) : Alter("sig", v)

----------------------------------------------------------------------------
(* Specifications.  The operations are pure functions of their inputs, so *)
(* each specification draws the inputs of one group of operations and      *)
(* applies them.                                                           *)

\* tag constraints: #e and #p of the filter against the event's tags
InitTags ==
    /\ Fresh
    /\ config = DefaultConfig
    /\ filter \in {[EmptyFilter EXCEPT !.e = x, !.p = y, !.kinds = k] :
                      x \in Lists(Values, MaxList), y \in Lists(Values, MaxList),
                      k \in Lists({1}, 1)}
    /\ event \in {[DefaultEvent EXCEPT !.tags = t, !.kind = k] :
                      t \in TagLists, k \in Values}

NextTags == Matches

SpecTags == InitTags /\ [][NextTags]_vars

\* live matching and the compiled query on one stored event, with positive
\* time bounds
InitQuery ==
    /\ Fresh
    /\ config = DefaultConfig
    /\ filter \in {Masked(m, list, s, u) :
                      m \in SUBSET ListFields, list \in Lists(Values, 1),
                      s \in Optional(1..MaxTime), u \in Optional(1..MaxTime)}
    /\ event \in {[DefaultEvent EXCEPT !.id = i, !.pubkey = a, !.kind = k,
                                       !.created_at = c, !.tags = t] :
                      i \in Values, a \in Values, k \in Values,
                      c \in 0..(MaxTime + 1), t \in IndexedTagLists}

NextQuery ==
    \/ Matches
    \/ \E relay_id \in Values, deleted \in BOOLEAN : HistoricalQuery(relay_id, deleted)

SpecQuery == InitQuery /\ [][NextQuery]_vars

\* one constraint added to a filter (time bounds positive), then live matching
InitNarrow ==
    /\ Fresh
    /\ config = DefaultConfig
    /\ filter \in {Masked(m, <<1>>, None, None) : m \in SUBSET ListFields}
    /\ event \in {[DefaultEvent EXCEPT !.id = i, !.pubkey = a, !.kind = k,
                                       !.created_at = c, !.tags = t] :
                      i \in Values, a \in Values, k \in Values,
                      c \in 0..(MaxTime + 1), t \in IndexedTagLists}

NextNarrow ==
    \/ Matches
    \/ \E field \in ListFields, v \in Values : Narrow(field, v)
    \/ \E field \in {"since", "until"}, v \in 1..MaxTime : Narrow(field, v)

SpecNarrow == InitNarrow /\ [][NextNarrow]_vars

\* is_empty and enforce_limit on a requested filter
InitFilter ==
    /\ Fresh
    /\ event = DefaultEvent
    /\ config \in {[DefaultConfig EXCEPT !.limit_per_filter = l] : l \in 1..MaxLimit}
    /\ filter \in {[Masked(m, list, s, u) EXCEPT !.limit = l, !.subscription_id = sub] :
                      m \in SUBSET ListFields, list \in Lists(Values, 1) \ {<<>>},
                      s \in Optional(Times), u \in Optional(Times),
                      l \in Optional(MinLimit..(MaxLimit + 1)),
                      sub \in Optional({1})}

NextFilter == IsEmpty \/ EnforceLimit

SpecFilter == InitFilter /\ [][NextFilter]_vars

\* the allow-list and the block-list of a relay
InitAuthor ==
    /\ Fresh
    /\ event = DefaultEvent
    /\ filter = EmptyFilter
    /\ config \in {[DefaultConfig EXCEPT !.allowed_public_keys = a,
                                         !.blocked_public_keys = b] :
                      a \in Lists(Values, MaxList), b \in Lists(Values, MaxList)}

NextAuthor == \E p \in Values : IsAuthorAllowed(p)

SpecAuthor == InitAuthor /\ [][NextAuthor]_vars

\* a value added to d: the fields of a filter then hold values of disjoint ranges
Shift(list, d) == [i \in 1..Len(list) |-> list[i] + d]

\* query compilation; every bound value tells the field it came from
InitSql ==
    /\ Fresh
    /\ event = DefaultEvent
    /\ config = DefaultConfig
    /\ filter \in {[Masked(m, list, s, u) EXCEPT
                        !.authors = Shift(@, MaxVal), !.kinds = Shift(@, 2 * MaxVal),
                        !.e = Shift(@, 3 * MaxVal), !.p = Shift(@, 4 * MaxVal)] :
                      m \in SUBSET ListFields, list \in Lists(Values, MaxList),
                      s \in Optional(Times), u \in Optional(Times)}

NextSql == \E relay_id \in Values : ToSqlComponents(relay_id)

SpecSql == InitSql /\ [][NextSql]_vars

\* events as their publishers signed them
SignedEvents ==
    {[e0 EXCEPT !.id = event_id(e0), !.sig = Sign(e0.pubkey, event_id(e0))] :
        e0 \in {[DefaultEvent EXCEPT !.pubkey = k, !.created_at = c, !.kind = kd,
                                     !.content = s, !.tags = t] :
                    k \in {x \in 0..MaxKey : IsPublicKey(x)}, c \in Times,
                    kd \in 0..1, s \in 0..MaxKey,
                    t \in {<<>>, << <<"e", 1>> >>}}}

InitSig ==
    /\ Fresh
    /\ filter = EmptyFilter
    /\ config = DefaultConfig
    /\ event \in SignedEvents

NextSig == AlterId \/ AlterPubkey \/ AlterSig \/ CheckSignature

SpecSig == InitSig /\ [][NextSig]_vars

----------------------------------------------------------------------------
(* What the specification says of an event and a filter *)

\* the event carries a tag entry of that name whose value the filter lists
CarriesTag(f, ev, tag_name) ==
    \E i \in 1..Len(ev.tags) :
        /\ Len(ev.tags[i]) >= 2
        /\ ev.tags[i][1] = tag_name
        /\ In(ev.tags[i][2], FilterTags(f, tag_name))

\* the id, author, kind, since and until constraints of the filter hold
PassesFieldChecks(f, ev) ==
    /\ Len(f.ids) = 0 \/ In(ev.id, f.ids)
    /\ Len(f.authors) = 0 \/ In(ev.pubkey, f.authors)
    /\ Len(f.kinds) = 0 \/ In(ev.kind, f.kinds)
    /\ f.since = None \/ ev.created_at >= f.since[1]
    /\ f.until = None \/ ev.created_at < f.until[1]

\* the event does not satisfy the constraint the filter holds in that field
FailsConstraint(f, ev, field) ==
    CASE field = "ids" -> ~In(ev.id, f.ids)
      [] field = "authors" -> ~In(ev.pubkey, f.authors)
      [] field = "kinds" -> ~In(ev.kind, f.kinds)
      [] field = "e" -> ~CarriesTag(f, ev, "e")
      [] field = "p" -> ~CarriesTag(f, ev, "p")
      [] field = "since" -> ev.created_at < f.since[1]
      [] field = "until" -> ev.created_at >= f.until[1]
      [] OTHER -> FALSE

Min(a, b) == IF a < b THEN a ELSE b

----------------------------------------------------------------------------
(* Claims *)

\* C1: for a filter and event that pass the id/author/kind/time checks,
\* matches returns true iff for each of #e and #p whose filter list is
\* non-empty the event carries a tag entry of that name with a listed value.
C1_TagSemantics ==
    op = "matches" /\ PassesFieldChecks(filter, event) =>
        (ret = Return(TRUE) <=>
            /\ Len(filter.e) = 0 \/ CarriesTag(filter, event, "e")
            /\ Len(filter.p) = 0 \/ CarriesTag(filter, event, "p"))

\* C10: matches returns true or false for every event whose tags are lists of
\* strings of any length; it never ends in an error.
C10_MatchesTotal == op = "matches" => ret.raised = ""

\* C2: in live matching since is an inclusive lower bound and until an
\* exclusive upper bound: created_at < since is not matched, created_at =
\* since is not rejected by the since check, created_at >= until is not matched.
C2_TimeBounds ==
    op = "matches" =>
        /\ filter.since # None /\ event.created_at < filter.since[1]
              => ret = Return(FALSE)
        /\ filter.since # None /\ event.created_at = filter.since[1]
              => ~SinceRejects(filter, event)
        /\ filter.until # None /\ event.created_at >= filter.until[1]
              => ret = Return(FALSE)

\* C3: the all-empty filter matches every event, and a filter to which one
\* constraint was added that the event fails to satisfy does not match it.
C3_MonotonicNarrowing ==
    op = "matches" =>
        /\ filter = EmptyFilter => ret = Return(TRUE)
        /\ change # "none" /\ FailsConstraint(filter, event, change)
              => ret = Return(FALSE)

\* C4: after enforce_limit(L) with L positive the limit is min(requested, L)
\* when the requested limit is positive and L when it is absent, zero or
\* negative; the result is in 1..L.
C4_LimitClamped ==
    op = "enforce_limit" =>
        /\ filter.limit =
              Some(IF arg # None /\ arg[1] > 0
                   THEN Min(arg[1], config.limit_per_filter)
                   ELSE config.limit_per_filter)
        /\ filter.limit[1] \in 1..config.limit_per_filter

\* C5: is_author_allowed denies a blocked pubkey even when it is also allowed,
\* allows a pubkey that is not blocked iff the allow-list is empty or holds
\* it, and changes neither list.
C5_BlockFirst ==
    [][op' = "is_author_allowed" =>
          /\ ret' = Return(/\ ~In(arg', config.blocked_public_keys)
                           /\ \/ config.allowed_public_keys = <<>>
                              \/ In(arg', config.allowed_public_keys))
          /\ config'.allowed_public_keys = config.allowed_public_keys
          /\ config'.blocked_public_keys = config.blocked_public_keys]_vars

C5_Witness ==
    /\ op = "is_author_allowed"
    /\ In(arg, config.blocked_public_keys)
    /\ In(arg, config.allowed_public_keys)
    /\ ret = Return(FALSE)


\* the bound values a where-predicate consumes, by the constraint it tests
Supplied(f, relay_id, text) ==
    CASE text[1] = "nostrrelay.events.relay_id = " -> <<relay_id>>
      [] text[1] = " (e_tags.value in (" -> f.e
      [] text[1] = " p_tags.value in (" -> f.p
      [] text[1] = "id IN (" -> f.ids
      [] text[1] = "pubkey IN (" -> f.authors
      [] text[1] = "kind IN (" -> f.kinds
      [] text[1] = "created_at >= " -> f.since
      [] text[1] = "created_at < " -> f.until
      [] OTHER -> <<>>

\* the place of a where-predicate's constraint in the order relay_id, #e, #p,
\* ids, authors, kinds, since, until
Rank(text) ==
    CASE text[1] = "deleted=false" -> 0
      [] text[1] = "nostrrelay.events.relay_id = " -> 1
      [] text[1] = " (e_tags.value in (" -> 2
      [] text[1] = " p_tags.value in (" -> 3
      [] text[1] = "id IN (" -> 4
      [] text[1] = "pubkey IN (" -> 5
      [] text[1] = "kind IN (" -> 6
      [] text[1] = "created_at >= " -> 7
      [] text[1] = "created_at < " -> 8
      [] OTHER -> 9

RECURSIVE SuppliedFrom(_, _, _, _)
\* the values of the constraints of where[i..], in order
SuppliedFrom(f, relay_id, where, i) ==
    IF i > Len(where) THEN <<>>
    ELSE Supplied(f, relay_id, where[i]) \o SuppliedFrom(f, relay_id, where, i + 1)

RECURSIVE CountPlaceholders(_, _)
CountPlaceholders(texts, i) ==
    IF i > Len(texts) THEN 0
    ELSE NumPlaceholders(texts[i]) + CountPlaceholders(texts, i + 1)

\* every value a filter and a relay id can put into a query
FilterValues(f, relay_id) ==
    {relay_id}
    \cup {f.ids[i] : i \in 1..Len(f.ids)} \cup {f.authors[i] : i \in 1..Len(f.authors)}
    \cup {f.kinds[i] : i \in 1..Len(f.kinds)} \cup {f.e[i] : i \in 1..Len(f.e)}
    \cup {f.p[i] : i \in 1..Len(f.p)} \cup {f.since[i] : i \in 1..Len(f.since)}
    \cup {f.until[i] : i \in 1..Len(f.until)}

\* the tokens of a list of SQL texts
Tokens(texts) == UNION {{texts[i][j] : j \in 1..Len(texts[i])} : i \in 1..Len(texts)}

\* C6: to_sql_components binds every value: the where-predicates hold as many
\* placeholders as there are values, the joins hold none, the i-th placeholder
\* belongs to the constraint that supplied the i-th value (in the order
\* relay_id, #e, #p, ids, authors, kinds, since, until), and no value is
\* written into the SQL text.
C6_ValuesBound ==
    op = "to_sql_components" =>
        /\ CountPlaceholders(ret.where, 1) = Len(ret.values)
        /\ CountPlaceholders(ret.inner_joins, 1) = 0
        /\ \A i \in 1..Len(ret.where) :
              /\ NumPlaceholders(ret.where[i]) = Len(Supplied(filter, arg, ret.where[i]))
              /\ i > 1 => Rank(ret.where[i - 1]) < Rank(ret.where[i])
        /\ ret.values = SuppliedFrom(filter, arg, ret.where, 1)
        /\ \A v \in FilterValues(filter, arg) :
              \A i \in 1..Len(Str(v)) :
                  Str(v)[i] \notin Tokens(ret.where) \cup Tokens(ret.inner_joins)

C6_Witness ==
    /\ op = "to_sql_components"
    /\ Len(filter.e) = 2 /\ Len(filter.ids) = 2 /\ Len(filter.kinds) = 2
    /\ Truthy(filter.since) /\ Truthy(filter.until)
    /\ Len(ret.values) = 9

NoLists(f) ==
    /\ f.ids = <<>> /\ f.authors = <<>> /\ f.kinds = <<>>
    /\ f.e = <<>> /\ f.p = <<>>

\* C8 as stated: is_empty returns true iff ids, authors, kinds, #e, #p are
\* empty and since, until and limit are unset.
C8_AsStated ==
    op = "is_empty" =>
        (ret.value <=>
            /\ NoLists(filter)
            /\ filter.since = None /\ filter.until = None /\ filter.limit = None)

\* C8 amended: is_empty returns true iff ids, authors, kinds, #e and #p are
\* empty and since and until are each unset or 0; limit and subscription_id
\* are not looked at.
C8_NoConstraint ==
    op = "is_empty" =>
        (ret = Return(/\ NoLists(filter)
                      /\ filter.since \in {None, Some(0)}
                      /\ filter.until \in {None, Some(0)}))

C8_Witness ==
    /\ op = "is_empty"
    /\ filter.limit # None /\ filter.limit[1] > 0
    /\ filter.since = Some(0)
    /\ filter.subscription_id # None
    /\ ret = Return(TRUE)

\* C9: for a non-deleted event stored under the queried relay, matches is true
\* iff the event satisfies the joins and where-predicates of
\* to_sql_components.
C9_LiveEqualsQuery ==
    op = "query" /\ arg.relay_id = 1 /\ ~arg.deleted =>
        (ret = Return(TRUE) <=> matches(filter, event) = Return(TRUE))

====
